---- MODULE Spec2Model ----
(***************************************************************************)
(* CraftMoonLauncher (src/main.rs): the launcher's worker thread checks    *)
(* the launcher's and the game's release catalogs, replaces the launcher,  *)
(* patches or reinstalls the game executable and launches it, while the    *)
(* main thread runs the window's event loop.                               *)
(*                                                                         *)
(* Option<T> is a sequence: None is <<>> and Some(x) is <<x>>.  Rust       *)
(* indices are kept 0-based; At(s, i) reads s[i].  Byte contents are       *)
(* numbers: 1..MaxReleases are the releases' full artifacts, Corrupt is    *)
(* any content that is no release's artifact.                              *)
(***************************************************************************)
EXTENDS Integers, Sequences, FiniteSets, TLC

\* Longest game catalog the remote serves (and the number of distinct artifacts).
MaxReleases == 3

None == <<>>
Some(x) == <<x>>
IsSome(o) == o # <<>>
Unwrap(o) == o[1]

At(s, i) == s[i + 1]

Corrupt == MaxReleases + 1

NoBase == MaxReleases + 2

\* ------------------------------------------------------------------ data

\* struct Asset: name is split into its stem and its suffix; browser_download_url
\* stands for the bytes the URL serves.
MkAsset(stem, suffix, digest, served) ==
    [name |-> <<stem, suffix>>, digest |-> digest, browser_download_url |-> served]

\* struct Release
MkRelease(tag, assets) == [tag_name |-> tag, assets |-> assets]

\* str::ends_with on an asset name
EndsWith(name, suffix) == Len(name) > 0 /\ name[Len(name)] = suffix

\* format!("sha256:{:x}", Sha256::digest(bytes)): the algorithm prefix and the
\* (collision-free) hash of the bytes.
Sha256Digest(bytes) == <<"sha256", bytes>>

\* std::fs::read(&exe_path_str).ok() followed by the digest formatting
ExeHashOf(file) == IF IsSome(file) THEN Some(Sha256Digest(Unwrap(file))) ELSE None

\* assets.iter().find(|asset| asset.name.ends_with(suffix))
FindAsset(assets, suffix) ==
    LET hits == {i \in 1..Len(assets) : EndsWith(assets[i].name, suffix)}
    IN  IF hits = {} THEN None
        ELSE Some(assets[CHOOSE i \in hits : \A j \in hits : i <= j])

\* releases.iter().position(|release| exe asset .is_some_and(digest == exe_hash)):
\* Option<String> == Option<String>, so None equals None.
PositionInstalled(releases, exe_hash) ==
    LET hits == {i \in 0..(Len(releases) - 1) :
                    LET a == FindAsset(At(releases, i).assets, ".exe")
                    IN  IsSome(a) /\ Unwrap(a).digest = exe_hash}
    IN  IF hits = {} THEN None
        ELSE Some(CHOOSE i \in hits : \A j \in hits : i <= j)

\* Iterator::rev
Rev(s) == [i \in 1..Len(s) |-> s[Len(s) + 1 - i]]

\* Iterator::skip
Skip(s, n) == IF n >= Len(s) THEN <<>> ELSE [i \in 1..(Len(s) - n) |-> s[i + n]]

\* Option::unwrap_or_default on the installed index
UnwrapOrDefault(o) == IF IsSome(o) THEN Unwrap(o) ELSE 0

\* Mutant: the plan taken in catalog order (newest first), the rev() left out.
PlanPatchAssetsNewestFirst(releases, installed_release_index) ==
    LET head == SubSeq(releases, 1, UnwrapOrDefault(installed_release_index))
    IN  [i \in 1..Len(head) |-> FindAsset(head[i].assets, ".patch")]

\* releases.iter().rev().skip(len - installed).map(find ".patch").collect()
PlanPatchAssets(releases, installed_release_index) ==
    LET tail == Skip(Rev(releases), Len(releases) - UnwrapOrDefault(installed_release_index))
    IN  [i \in 1..Len(tail) |-> FindAsset(tail[i].assets, ".patch")]

\* bzip2 BzDecoder::read_to_end: Err (None) when the bytes are no bzip2 stream
BzDecode(compressed) ==
    IF compressed.bz THEN Some([old |-> compressed.old, new |-> compressed.new]) ELSE None

\* bsdiff::patch(old, patch): the new bytes when the patch was made against old;
\* against any other base it either fails or yields bytes of no release.
BsdiffPatch(old, patch) ==
    IF patch.old = old THEN {Some(patch.new)} ELSE {None, Some(Corrupt)}

\* bsdiff::diff(old, new): the patch that turns old into new
BsdiffDiff(old, new) == [old |-> old, new |-> new]

\* bzip2 BzEncoder::write_all and finish at Compression::best()
BzEncode(patch) == [bz |-> TRUE, old |-> patch.old, new |-> patch.new]

\* Mutant: the two files handed to bsdiff::diff in the wrong order.
DiffFilesSwapped(file_a, file_b, io) ==
    IF io = "read" \/ ~IsSome(file_a) \/ ~IsSome(file_b)
    THEN {[err |-> "read", patch_file |-> None]}
    ELSE LET compressed_patch == BzEncode(BsdiffDiff(Unwrap(file_b), Unwrap(file_a)))
         IN  IF io = "write"
             THEN {[err |-> "write", patch_file |-> f] :
                      f \in {None, Some([compressed_patch EXCEPT !.bz = FALSE])}}
             ELSE {[err |-> "none", patch_file |-> Some(compressed_patch)]}

\* diff_files(file_a, file_b, patch_file) on a fresh patch path: the outcomes
\* [err, patch_file]; io is "read" when a read fails, "write" when std::fs::write
\* fails, leaving no file or a truncated one.
DiffFiles(file_a, file_b, io) ==
    IF io = "read" \/ ~IsSome(file_a) \/ ~IsSome(file_b)
    THEN {[err |-> "read", patch_file |-> None]}
    ELSE LET compressed_patch == BzEncode(BsdiffDiff(Unwrap(file_a), Unwrap(file_b)))
         IN  IF io = "write"
             THEN {[err |-> "write", patch_file |-> f] :
                      f \in {None, Some([compressed_patch EXCEPT !.bz = FALSE])}}
             ELSE {[err |-> "none", patch_file |-> Some(compressed_patch)]}

\* get_releases: Err (None) on a transport error, a non-success status, a body
\* that does not parse, or an empty list.
GetReleases(remote, net) ==
    IF net # "ok" THEN None
    ELSE IF remote = <<>> THEN None
    ELSE Some(remote)

\* Mutant: a failed or empty fetch reported as not up to date.
IsRunningLatestEmptyStale(releases, self_update, exe_hash, pkg_version) ==
    IF releases = <<>> THEN FALSE
    ELSE IF self_update THEN pkg_version = At(releases, 0).tag_name
    ELSE IF IsSome(exe_hash)
         THEN LET a == FindAsset(At(releases, 0).assets, ".exe")
              IN  IsSome(a) /\ Unwrap(a).digest = Some(Unwrap(exe_hash))
    ELSE FALSE

\* Mutant: the digests compared as Options, so that absent equals absent.
IsRunningLatestOptionEq(releases, self_update, exe_hash, pkg_version) ==
    IF releases = <<>> THEN TRUE
    ELSE IF self_update THEN pkg_version = At(releases, 0).tag_name
    ELSE LET a == FindAsset(At(releases, 0).assets, ".exe")
         IN  IsSome(a) /\ Unwrap(a).digest = exe_hash

\* Mutant: the launcher's version compared for difference instead of equality.
IsRunningLatestTagDiffers(releases, self_update, exe_hash, pkg_version) ==
    IF releases = <<>> THEN TRUE
    ELSE IF self_update THEN pkg_version # At(releases, 0).tag_name
    ELSE IF IsSome(exe_hash)
         THEN LET a == FindAsset(At(releases, 0).assets, ".exe")
              IN  IsSome(a) /\ Unwrap(a).digest = Some(Unwrap(exe_hash))
    ELSE FALSE

\* The comparison of check_for_updated_release once the list is fetched.
IsRunningLatest(releases, self_update, exe_hash, pkg_version) ==
    IF releases = <<>> THEN TRUE
    ELSE IF self_update THEN pkg_version = At(releases, 0).tag_name
    ELSE IF IsSome(exe_hash)
         THEN LET a == FindAsset(At(releases, 0).assets, ".exe")
              IN  IsSome(a) /\ Unwrap(a).digest = Some(Unwrap(exe_hash))
    ELSE FALSE

\* ------------------------------------------------------ remote catalogs

\* The .exe assets a release of artifact art may carry: none, or the artifact
\* with or without the digest the listing service computed for it.
ExeChoices(art) ==
    {None} \cup {Some(MkAsset("CraftMoon", ".exe", d, art)) :
                    d \in {None, Some(Sha256Digest(art))}}

\* The .patch assets it may carry: none, the patch from the previous artifact,
\* a patch made against some other base, or bytes that are no bzip2 stream (the
\* oldest release, which has no previous artifact, carries none or one patch).
PatchChoices(art) ==
    {None} \cup {Some(MkAsset("CraftMoon", ".patch", None, p)) :
                    p \in {[bz |-> TRUE, old |-> art - 1, new |-> art]} \cup
                          (IF art = 1 THEN {}
                           ELSE {[bz |-> TRUE, old |-> NoBase, new |-> art],
                                 [bz |-> FALSE, old |-> art - 1, new |-> art]})}

GameReleases(art) ==
    {MkRelease("game", e \o p) : e \in ExeChoices(art), p \in PatchChoices(art)}

\* Newest first: the head carries artifact n, the oldest release artifact 1.
RECURSIVE CatalogsOfLen(_)
CatalogsOfLen(n) ==
    IF n = 0 THEN {<<>>}
    ELSE {<<r>> \o c : r \in GameReleases(n), c \in CatalogsOfLen(n - 1)}

GameCatalogs == UNION {CatalogsOfLen(n) : n \in 0..MaxReleases}

PkgVersion == "0.1.0"

\* current_exe_path.file_name(): the name the launcher's download takes in the
\* temp directory.
CurrentExeName == <<"CraftMoonLauncher", ".exe">>

LauncherCatalogs ==
    {<<>>} \cup
    {<<MkRelease(t, a)>> :
        t \in {PkgVersion, "0.2.0"},
        a \in {<<>>, <<MkAsset("CraftMoonLauncher", ".exe", None, "0.2.0")>>}}

\* What the installed game file may hold when the launcher starts.
InstalledFiles == {None} \cup {Some(c) : c \in 1..(MaxReleases + 1)}

\* The catalogs drawn for runs of the whole program: at most two releases, each
\* with a digested .exe asset and, when it carries a patch, the patch from the
\* previous artifact.
SmallCatalogs ==
    {c \in GameCatalogs :
        /\ Len(c) <= 2
        /\ \A i \in 1..Len(c) :
              LET a == FindAsset(c[i].assets, ".exe")
                  p == FindAsset(c[i].assets, ".patch")
              IN  /\ IsSome(a) /\ IsSome(Unwrap(a).digest)
                  /\ IsSome(p) => /\ Unwrap(p).browser_download_url.bz
                                  /\ Unwrap(p).browser_download_url.old # NoBase}

\* ----------------------------------------------------------------- state

VARIABLES
    args,                    \* Args of the running process
    pc,                      \* where the worker thread (or main, before it) stands
    ui,                      \* "none", "running" (event loop), "closed" (ui.run() returned)
    exit,                    \* None while the process runs, else Some([code, by])
    remote_launcher,         \* what the listing service holds for CraftMoonLauncher
    remote_game,             \* what the listing service holds for CraftMoon
    launcher_bin,            \* the launcher executable on disk
    exe_file,                \* the game executable on disk (None: no file)
    temp_files,              \* names present in the temp directory
    launcher_releases,       \* releases of the launcher check
    releases,                \* releases of the game check
    exe_hash,                \* main's exe_hash
    installed_release_index, \* update_game's locals
    reinstall_game,
    patch_assets,
    index,
    attempted,               \* patch assets whose download was started, in order
    applied,                 \* patch assets written into the game file, in order
    step_fail,               \* why the patch loop broke ("none" while it has not)
    reinstall_result,        \* "none", "no_asset", "download", "ok"
    pre_reinstall,           \* Some(game file) as it was when the reinstall began
    rm_failed,               \* a remove_file of a patch file has failed in update_game
    ul_result,               \* where update_launcher gave up ("none" while it has not)
    launcher_check,          \* "none", "failed", "current", "outdated"
    game_check,
    replaced,                \* successful self_replace calls since the user's start
    restarts,                \* successful restart_program spawns since the user's start
    diff_disk                \* the files the Diff subcommand names: [file_a, file_b, patch_file]

vars == <<args, pc, ui, exit, remote_launcher, remote_game, launcher_bin, exe_file,
          temp_files, launcher_releases, releases, exe_hash, installed_release_index,
          reinstall_game, patch_assets, index, attempted, applied, step_fail,
          reinstall_result, pre_reinstall, rm_failed, ul_result, launcher_check,
          game_check, replaced, restarts, diff_disk>>

remote == <<remote_launcher, remote_game>>
disk == <<launcher_bin, exe_file, temp_files>>
check_locals == <<launcher_releases, releases, exe_hash, launcher_check, game_check>>
game_locals == <<installed_release_index, reinstall_game, patch_assets, index>>
game_log == <<attempted, applied, step_fail, reinstall_result, pre_reinstall,
             rm_failed>>
self_log == <<ul_result, replaced, restarts>>

\* The locals of a process that has just started.
FreshProcess ==
    /\ pc = "main" /\ ui = "none" /\ exit = None
    /\ launcher_releases = <<>> /\ releases = <<>> /\ exe_hash = None
    /\ installed_release_index = None /\ reinstall_game = FALSE
    /\ patch_assets = <<>> /\ index = 0
    /\ attempted = <<>> /\ applied = <<>> /\ step_fail = "none"
    /\ reinstall_result = "none" /\ pre_reinstall = None /\ rm_failed = FALSE
    /\ ul_result = "none" /\ launcher_check = "none" /\ game_check = "none"

\* No Diff subcommand: the files it would name play no part.
NoDiffDisk == [file_a |-> None, file_b |-> None, patch_file |-> None]

Init ==
    /\ FreshProcess
    /\ args \in [no_self_update : BOOLEAN, no_game_update : BOOLEAN, command : {None}]
    /\ diff_disk = NoDiffDisk
    /\ remote_launcher \in LauncherCatalogs
    /\ remote_game \in SmallCatalogs
    /\ launcher_bin = PkgVersion
    /\ exe_file \in InstalledFiles
    /\ temp_files = {}
    /\ replaced = 0 /\ restarts = 0

\* A run started with --no-self-update, against any catalog of the game.
InitGame ==
    /\ FreshProcess
    /\ args = [no_self_update |-> TRUE, no_game_update |-> FALSE, command |-> None]
    /\ diff_disk = NoDiffDisk
    /\ remote_launcher = <<>>
    /\ remote_game \in GameCatalogs
    /\ launcher_bin = PkgVersion
    /\ exe_file \in InstalledFiles
    /\ temp_files = {}
    /\ replaced = 0 /\ restarts = 0

\* ------------------------------------------------------------- helpers

\* ui_weak.upgrade_in_event_loop(..).unwrap(): Ok while the event loop runs; once
\* it has terminated the call is either Ok (the closure is never run) or Err, and
\* the unwrap then panics the worker thread.
DispatchResults == IF ui = "closed" THEN {"ok", "err"} ELSE {"ok"}

\* The request of get_releases: answered, transport error, non-success status,
\* or a body that does not parse.
NetResults == {"ok", "transport", "status", "parse"}

\* download_file: "net" is a failure of send, of the status test or of bytes();
\* "create" a failure of File::create; "write" a failure of write_all, after
\* File::create has truncated the destination.
DownloadResults == {"ok", "net", "create", "write"}

\* The destination of download_file afterwards.
DownloadFile(dest, served, dl) ==
    IF dl = "ok" THEN Some(served)
    ELSE IF dl = "write" THEN Some(Corrupt)
    ELSE dest

\* Mutant: the file opened for writing (and truncated) before the patch is decoded.
PatchFileTruncatesFirst(file, compressed, io) ==
    IF io = "read" \/ ~IsSome(file) THEN {[err |-> "read", file |-> file]}
    ELSE LET patch == BzDecode(compressed)
         IN  IF ~IsSome(patch) THEN {[err |-> "decompress", file |-> Some(Corrupt)]}
             ELSE UNION {
                    IF ~IsSome(new) THEN {[err |-> "primitive", file |-> Some(Corrupt)]}
                    ELSE IF io = "write"
                         THEN {[err |-> "write", file |-> Some(Corrupt)]}
                    ELSE {[err |-> "none", file |-> new]}
                    : new \in BsdiffPatch(Unwrap(file), Unwrap(patch))}

\* patch_file(file, patch): the outcomes [err, file]; io is "read" when a read of
\* the file or of the patch fails, "write" when std::fs::write fails (before or
\* after truncating the file).
PatchFile(file, compressed, io) ==
    IF io = "read" \/ ~IsSome(file) THEN {[err |-> "read", file |-> file]}
    ELSE LET patch == BzDecode(compressed)
         IN  IF ~IsSome(patch) THEN {[err |-> "decompress", file |-> file]}
             ELSE UNION {
                    IF ~IsSome(new) THEN {[err |-> "primitive", file |-> file]}
                    ELSE IF io = "write"
                         THEN {[err |-> "write", file |-> f] : f \in {file, Some(Corrupt)}}
                    ELSE {[err |-> "none", file |-> new]}
                    : new \in BsdiffPatch(Unwrap(file), Unwrap(patch))}

\* Mutant: the game check made whether or not --no-game-update was given.
AfterSelfUpdateIgnoresFlag == "game_check"

\* Line 95 onwards: the game check unless --no-game-update, then launch_game.
AfterSelfUpdate == IF args.no_game_update THEN "launch_game" ELSE "game_check"

\* Mutant: the restart reached whether or not the temp copy was deleted.
AfterRemoveTempAlwaysRestarts(r) == "restart_program"

\* update_launcher, lines 171-176: restart_program() follows a successful
\* remove_file; a failed one returns to main.
AfterRemoveTemp(r) == IF r = "ok" THEN "restart_program" ELSE AfterSelfUpdate

\* update_game, lines 243-245: remove_file(&destination) on the temp directory.
TempAfterRemove(temp, name, rm) ==
    IF rm = "ok" THEN temp \ {name} ELSE temp \cup {name}

Running == exit = None

\* The unwrap of a failed dispatch: the worker thread dies where it stands.
Panic ==
    /\ pc' = "panicked"
    /\ UNCHANGED <<args, ui, exit, remote, diff_disk, disk, check_locals, game_locals, game_log,
                   self_log>>

\* ------------------------------------------------------------- actions

\* main, lines 64-85: the installation directory, the window, the worker thread.
Main ==
    /\ pc = "main" /\ Running /\ ~IsSome(args.command)
    /\ \E r \in {"ok", "install_dir", "window"} :
          IF r = "ok"
          THEN /\ ui' = "running"
               /\ pc' = IF args.no_self_update THEN AfterSelfUpdate ELSE "self_check"
               /\ exit' = exit
          ELSE /\ ui' = ui
               /\ pc' = "done"
               /\ exit' = Some([code |-> 1, by |-> r])
    /\ UNCHANGED <<args, remote, diff_disk, disk, check_locals, game_locals, game_log, self_log>>

\* main, lines 86-93, with check_for_updated_release(.., true, &None).
SelfCheck ==
    /\ pc = "self_check" /\ Running
    /\ \E d \in DispatchResults, net \in NetResults :
          LET got == GetReleases(remote_launcher, net)
              rel == IF IsSome(got) THEN Unwrap(got) ELSE <<>>
              latest == IsRunningLatest(rel, TRUE, None, PkgVersion)
          IN  IF d = "err" THEN Panic
              ELSE /\ launcher_releases' = rel
                   /\ launcher_check' = IF ~IsSome(got) THEN "failed"
                                        ELSE IF latest THEN "current" ELSE "outdated"
                   /\ pc' = IF latest THEN AfterSelfUpdate ELSE "update_launcher"
                   /\ UNCHANGED <<args, ui, exit, remote, diff_disk, disk, releases, exe_hash,
                                  game_check, game_locals, game_log, self_log>>

\* update_launcher, lines 125-164: the asset, the current exe path, the download.
UpdateLauncher ==
    /\ pc = "update_launcher" /\ Running
    /\ \E d \in DispatchResults, r \in {"current_exe"} \cup DownloadResults :
          LET exe_asset == FindAsset(At(launcher_releases, 0).assets, ".exe")
              give_up(why) ==
                  /\ ul_result' = why
                  /\ pc' = AfterSelfUpdate
          IN  IF ~IsSome(exe_asset)
              THEN give_up("no_asset") /\ UNCHANGED temp_files
              ELSE IF r = "current_exe"
              THEN give_up("current_exe") /\ UNCHANGED temp_files
              ELSE IF d = "err"
              THEN pc' = "panicked" /\ UNCHANGED <<ul_result, temp_files>>
              ELSE IF r = "ok"
              THEN /\ temp_files' = temp_files \cup {CurrentExeName}
                   /\ pc' = "self_replace"
                   /\ UNCHANGED ul_result
              ELSE /\ give_up("download")
                   /\ temp_files' = IF r = "write"
                                    THEN temp_files \cup {CurrentExeName}
                                    ELSE temp_files
    /\ UNCHANGED <<args, ui, exit, remote, diff_disk, launcher_bin, exe_file, check_locals,
                   game_locals, game_log, replaced, restarts>>

\* update_launcher, lines 166-169: self_replace::self_replace(&destination).
SelfReplace ==
    /\ pc = "self_replace" /\ Running
    /\ \E r \in {"ok", "err"} :
          IF r = "ok"
          THEN /\ launcher_bin' =
                     Unwrap(FindAsset(At(launcher_releases, 0).assets, ".exe")).browser_download_url
               /\ replaced' = replaced + 1
               /\ pc' = "remove_temp"
               /\ UNCHANGED ul_result
          ELSE /\ ul_result' = "replace"
               /\ pc' = AfterSelfUpdate
               /\ UNCHANGED <<launcher_bin, replaced>>
    /\ UNCHANGED <<args, ui, exit, remote, diff_disk, exe_file, temp_files, check_locals,
                   game_locals, game_log, restarts>>

\* update_launcher, lines 171-174: std::fs::remove_file(&destination).
RemoveTemp ==
    /\ pc = "remove_temp" /\ Running
    /\ \E r \in {"ok", "err"} :
          IF r = "ok"
          THEN /\ temp_files' = temp_files \ {CurrentExeName}
               /\ pc' = AfterRemoveTemp(r)
               /\ UNCHANGED ul_result
          ELSE /\ ul_result' = "remove"
               /\ pc' = AfterRemoveTemp(r)
               /\ UNCHANGED temp_files
    /\ UNCHANGED <<args, ui, exit, remote, diff_disk, launcher_bin, exe_file, check_locals,
                   game_locals, game_log, replaced, restarts>>

\* Mutant: the restart without its flag.
RestartArgsNoFlag ==
    [no_self_update |-> FALSE, no_game_update |-> FALSE, command |-> None]

\* Command::new(current_exe).arg("--no-self-update"): the arguments the spawned
\* process parses.
RestartArgs == [no_self_update |-> TRUE, no_game_update |-> FALSE, command |-> None]

\* restart_program, lines 372-389.  A successful spawn starts the replaced
\* executable with --no-self-update alone and ends this process with exit(0).
RestartProgram ==
    /\ pc = "restart_program" /\ Running
    /\ \E r \in {"ok", "current_exe", "spawn"} :
          IF r = "current_exe"
          THEN /\ ul_result' = "restart_path"
               /\ pc' = AfterSelfUpdate
               /\ UNCHANGED <<args, ui, exit, check_locals, restarts>>
          ELSE IF r = "spawn"
          THEN /\ ul_result' = "restart_spawn"
               /\ exit' = Some([code |-> 1, by |-> "restart_failed"])
               /\ pc' = "done"
               /\ UNCHANGED <<args, ui, check_locals, restarts>>
          ELSE /\ args' = RestartArgs
               /\ restarts' = restarts + 1
               /\ pc' = "main" /\ ui' = "none" /\ exit' = None
               /\ launcher_releases' = <<>> /\ launcher_check' = "none"
               /\ ul_result' = "none"
               /\ UNCHANGED <<releases, exe_hash, game_check>>
    /\ UNCHANGED <<remote, diff_disk, disk, game_locals, game_log, replaced>>

\* main, lines 97-115, with check_for_updated_release(.., false, &exe_hash).
GameCheck ==
    /\ pc = "game_check" /\ Running
    /\ \E d \in DispatchResults, net \in NetResults :
          LET hash == ExeHashOf(exe_file)
              got == GetReleases(remote_game, net)
              rel == IF IsSome(got) THEN Unwrap(got) ELSE <<>>
              latest == IsRunningLatest(rel, FALSE, hash, PkgVersion)
          IN  IF d = "err"
              THEN /\ pc' = "panicked"
                   /\ exe_hash' = hash
                   /\ UNCHANGED <<releases, game_check>>
              ELSE /\ exe_hash' = hash
                   /\ releases' = rel
                   /\ game_check' = IF ~IsSome(got) THEN "failed"
                                    ELSE IF latest THEN "current" ELSE "outdated"
                   /\ pc' = IF latest THEN "launch_game" ELSE "update_game"
    /\ UNCHANGED <<args, ui, exit, remote, diff_disk, disk, launcher_releases, launcher_check,
                   game_locals, game_log, self_log>>

\* update_game, lines 186-210: the installed release and the patch assets.
UpdateGamePlan ==
    /\ pc = "update_game" /\ Running
    /\ LET found == PositionInstalled(releases, exe_hash)
           plan == IF IsSome(found) THEN PlanPatchAssets(releases, found) ELSE <<>>
       IN  /\ installed_release_index' = found
           /\ reinstall_game' = ~IsSome(found)
           /\ patch_assets' = plan
           /\ index' = 0
           /\ pc' = IF ~IsSome(found) THEN "reinstall"
                    ELSE IF plan = <<>> THEN "launch_game"
                    ELSE "patch_loop"
    /\ UNCHANGED <<args, ui, exit, remote, diff_disk, disk, check_locals, game_log, self_log>>

\* update_game, lines 211-246: one iteration of the loop over patch_assets.
PatchStep ==
    /\ pc = "patch_loop" /\ Running
    /\ LET item == At(patch_assets, index)
           abort(why) ==
               /\ step_fail' = why
               /\ reinstall_game' = TRUE
               /\ pc' = "reinstall"
               /\ UNCHANGED index
       IN  IF ~IsSome(item)
           THEN /\ abort("no_asset")
                /\ UNCHANGED <<exe_file, temp_files, attempted, applied, rm_failed>>
           ELSE \E d \in DispatchResults, dl \in DownloadResults,
                   io \in {"ok", "read", "write"}, rm \in {"ok", "err"} :
                  LET asset == Unwrap(item)
                  IN  IF d = "err"
                      THEN /\ pc' = "panicked"
                           /\ UNCHANGED <<exe_file, temp_files, attempted, applied,
                                          step_fail, reinstall_game, index,
                                          rm_failed>>
                      ELSE IF dl # "ok"
                      THEN /\ abort("download")
                           /\ attempted' = Append(attempted, asset)
                           /\ temp_files' = IF dl = "write"
                                            THEN temp_files \cup {asset.name}
                                            ELSE temp_files
                           /\ UNCHANGED <<exe_file, applied, rm_failed>>
                      ELSE \E res \in PatchFile(exe_file, asset.browser_download_url, io) :
                             /\ attempted' = Append(attempted, asset)
                             /\ exe_file' = res.file
                             /\ IF res.err # "none"
                                THEN /\ abort(res.err)
                                     /\ temp_files' = temp_files \cup {asset.name}
                                     /\ UNCHANGED <<applied, rm_failed>>
                                ELSE /\ applied' = Append(applied, asset)
                                     /\ temp_files' =
                                            TempAfterRemove(temp_files, asset.name, rm)
                                     /\ rm_failed' = (rm_failed \/ rm # "ok")
                                     /\ index' = index + 1
                                     /\ pc' = IF index + 1 = Len(patch_assets)
                                              THEN "launch_game" ELSE "patch_loop"
                                     /\ UNCHANGED <<step_fail, reinstall_game>>
    /\ UNCHANGED <<args, ui, exit, remote, diff_disk, launcher_bin, check_locals,
                   installed_release_index, patch_assets, reinstall_result,
                   pre_reinstall, self_log>>

\* update_game, lines 249-270: the latest release's .exe over the game file.
Reinstall ==
    /\ pc = "reinstall" /\ Running
    /\ \E d \in DispatchResults, dl \in DownloadResults :
          LET exe_asset == FindAsset(At(releases, 0).assets, ".exe")
          IN  IF d = "err"
              THEN /\ pc' = "panicked"
                   /\ UNCHANGED <<exe_file, reinstall_result, pre_reinstall>>
              ELSE /\ pre_reinstall' = Some(exe_file)
                   /\ pc' = "launch_game"
                   /\ IF ~IsSome(exe_asset)
                      THEN /\ reinstall_result' = "no_asset"
                           /\ UNCHANGED exe_file
                      ELSE /\ exe_file' = DownloadFile(exe_file,
                                              Unwrap(exe_asset).browser_download_url, dl)
                           /\ reinstall_result' = IF dl = "ok" THEN "ok" ELSE "download"
    /\ UNCHANGED <<args, ui, exit, remote, diff_disk, launcher_bin, temp_files, check_locals,
                   game_locals, attempted, applied, step_fail, rm_failed, self_log>>

\* launch_game, lines 363-370: spawn the game, then exit(0), or exit(1) when the
\* spawn fails (as it does when there is no file).
LaunchGame ==
    /\ pc = "launch_game" /\ Running
    /\ \E r \in (IF IsSome(exe_file) THEN {"ok", "err"} ELSE {"err"}) :
          exit' = Some(IF r = "ok" THEN [code |-> 0, by |-> "launched"]
                       ELSE [code |-> 1, by |-> "launch_failed"])
    /\ pc' = "done"
    /\ UNCHANGED <<args, ui, remote, diff_disk, disk, check_locals, game_locals,
                   game_log, self_log>>

\* The user closes the window: the event loop ends and ui.run() returns (line 120).
CloseWindow ==
    /\ ui = "running" /\ Running
    /\ ui' = "closed"
    /\ UNCHANGED <<args, pc, exit, remote, diff_disk, disk, check_locals, game_locals, game_log,
                   self_log>>

\* main returns Ok(()) (line 122): the process ends and the worker thread with it.
MainReturn ==
    /\ ui = "closed" /\ Running
    /\ exit' = Some([code |-> 0, by |-> "main_return"])
    /\ UNCHANGED <<args, pc, ui, remote, diff_disk, disk, check_locals, game_locals, game_log,
                   self_log>>

\* main, lines 67-75: the Diff subcommand runs diff_files and main returns, Ok
\* or with the error.
DiffCommand ==
    /\ pc = "main" /\ Running /\ IsSome(args.command)
    /\ \E io \in {"ok", "read", "write"} :
          \E res \in DiffFiles(diff_disk.file_a, diff_disk.file_b, io) :
             /\ diff_disk' = [diff_disk EXCEPT !.patch_file = res.patch_file]
             /\ exit' = Some([code |-> IF res.err = "none" THEN 0 ELSE 1, by |-> "diff"])
             /\ pc' = "diff_done"
    /\ UNCHANGED <<args, ui, remote, disk, check_locals, game_locals, game_log, self_log>>

\* patch_file (lines 391-402) run on the game file with the patch file that
\* diff_files wrote, as update_game runs it at line 237 with the downloaded copy
\* of such a file; step_fail records its error.
PatchFileOnDiffOutput ==
    /\ pc = "diff_done"
    /\ \E io \in {"ok", "read", "write"} :
          LET patch_io == IF IsSome(diff_disk.patch_file) THEN io ELSE "read"
              compressed == IF IsSome(diff_disk.patch_file)
                            THEN Unwrap(diff_disk.patch_file)
                            ELSE [bz |-> FALSE, old |-> NoBase, new |-> NoBase]
          IN  \E res \in PatchFile(exe_file, compressed, patch_io) :
                 /\ exe_file' = res.file
                 /\ step_fail' = res.err
    /\ pc' = "patched"
    /\ UNCHANGED <<args, ui, exit, remote, diff_disk, launcher_bin, temp_files,
                   check_locals, game_locals, attempted, applied, reinstall_result,
                   pre_reinstall, rm_failed, self_log>>

\* ------------------------------------------------------- specifications

Worker ==
    \/ SelfCheck \/ UpdateLauncher \/ SelfReplace \/ RemoveTemp \/ RestartProgram
    \/ GameCheck \/ UpdateGamePlan \/ PatchStep \/ Reinstall \/ LaunchGame

Next == Main \/ Worker \/ CloseWindow \/ MainReturn

Spec == Init /\ [][Next]_vars

\* The game update of a run with --no-self-update whose window stays open.
NextGame == Main \/ GameCheck \/ UpdateGamePlan \/ PatchStep \/ Reinstall \/ LaunchGame

GameSpec == InitGame /\ [][NextGame]_vars

\* The patch generation tool: `diff file_a file_b patch_file` over any two files,
\* and patch_file applied with its output to any game file.
InitDiff ==
    /\ FreshProcess
    /\ args = [no_self_update |-> FALSE, no_game_update |-> FALSE, command |-> Some("Diff")]
    /\ diff_disk \in [file_a : InstalledFiles, file_b : InstalledFiles,
                       patch_file : {None}]
    /\ remote_launcher = <<>> /\ remote_game = <<>>
    /\ launcher_bin = PkgVersion
    /\ exe_file \in InstalledFiles
    /\ temp_files = {}
    /\ replaced = 0 /\ restarts = 0

NextDiff == DiffCommand \/ PatchFileOnDiffOutput

DiffSpec == InitDiff /\ [][NextDiff]_vars

\* The threads of a live process are scheduled: main and the worker go on.
FairSpec == Init /\ [][Next]_vars /\ WF_vars(Main \/ Worker)

\* ---------------------------------------------------------------- claims

\* update_game has computed its plan in this process.
Planned ==
    /\ game_check = "outdated"
    /\ pc \in {"patch_loop", "reinstall", "launch_game", "done", "panicked"}

\* Release i carries a .exe asset whose digest equals the installed digest.
MatchesInstalled(i) ==
    \E n \in 1..Len(At(releases, i).assets) :
        LET a == At(releases, i).assets[n]
        IN  /\ a.name[Len(a.name)] = ".exe"
            /\ \A m \in 1..(n - 1) :
                  At(releases, i).assets[m].name[Len(At(releases, i).assets[m].name)] # ".exe"
            /\ a.digest = exe_hash

\* The installed digest equals the .exe digest of some release.
SomeMatch == \E i \in 0..(Len(releases) - 1) : MatchesInstalled(i)

\* The smallest index of a release the installed digest matches.
SmallestMatch ==
    CHOOSE k \in 0..(Len(releases) - 1) :
        MatchesInstalled(k) /\ \A i \in 0..(k - 1) : ~MatchesInstalled(i)

\* The .patch asset of release i, None when it carries none.
PatchOf(i) ==
    LET as == At(releases, i).assets
        ps == {n \in 1..Len(as) : as[n].name[Len(as[n].name)] = ".patch"}
    IN  IF ps = {} THEN None ELSE Some(as[CHOOSE n \in ps : \A m \in ps : n <= m])

\* C1: when the installed digest equals the .exe digest of some release, with k
\* the smallest such index, the plan of update_game is the .patch assets of
\* releases[k-1], ..., releases[0] in that order; the downloads it starts are
\* those assets in that order, all k of them once the loop has run to its end,
\* and none at all when k = 0.
C1_PlanIsChainToLatest ==
    (Planned /\ SomeMatch) =>
        LET k == SmallestMatch
        IN  /\ installed_release_index = Some(k)
            /\ Len(patch_assets) = k
            /\ \A j \in 1..k : patch_assets[j] = PatchOf(k - j)
            /\ Len(attempted) <= k
            /\ \A j \in 1..Len(attempted) : Some(attempted[j]) = PatchOf(k - j)
            /\ (k = 0 => attempted = <<>>)
            /\ (pc \in {"launch_game", "done"} /\ ~reinstall_game => Len(attempted) = k)

\* C1 witness: installed two releases behind, both patches attempted in order.
C1_Witness ==
    /\ Planned /\ SomeMatch /\ IsSome(exe_hash)
    /\ SmallestMatch = 2
    /\ Len(attempted) = 2
    /\ attempted[1] = Unwrap(PatchOf(1)) /\ attempted[2] = Unwrap(PatchOf(0))

\* Some release among releases[k-1]..releases[0] carries no .patch asset.
ChainHasGap ==
    SomeMatch /\ \E j \in 0..(SmallestMatch - 1) : ~IsSome(PatchOf(j))

\* C2: when the installed digest matches no release, or a release among
\* releases[k-1]..releases[0] lacks a .patch asset, update_game reinstalls and
\* runs no partial plan: no patch asset is downloaded and none is applied.
C2_NoPartialPlan ==
    (Planned /\ (~SomeMatch \/ (IsSome(exe_hash) /\ ChainHasGap))) =>
        /\ attempted = <<>>
        /\ applied = <<>>
        /\ (pc \in {"launch_game", "done"} => reinstall_result # "none")

\* launch_game has run: the process ended in its exit(0) or exit(1).
Launched == IsSome(exit) /\ Unwrap(exit).by \in {"launched", "launch_failed"}

\* No step of update_launcher has run in this process.
NoLauncherUpdate ==
    /\ pc \notin {"update_launcher", "self_replace", "remove_temp", "restart_program"}
    /\ ul_result = "none" /\ replaced = 0 /\ restarts = 0

\* No step of update_game has run in this process.
NoGameUpdate ==
    /\ pc \notin {"update_game", "patch_loop", "reinstall"}
    /\ installed_release_index = None /\ patch_assets = <<>>
    /\ attempted = <<>> /\ applied = <<>>
    /\ step_fail = "none" /\ reinstall_result = "none" /\ pre_reinstall = None

\* C3: a failure of get_releases in the launcher check or in the game check
\* never prevents the launch: the check reports up to date with an empty list,
\* no update operation of that project runs, and the worker reaches launch_game
\* (unless the window is closed, which ends the process).
C3_FetchFailureStillLaunches ==
    /\ [](launcher_check = "failed" => launcher_releases = <<>> /\ NoLauncherUpdate)
    /\ [](game_check = "failed" =>
            /\ releases = <<>> /\ NoGameUpdate
            /\ pc \in {"launch_game", "done"})
    /\ ((launcher_check = "failed" \/ game_check = "failed") ~> (Launched \/ ui = "closed"))

\* C3 witness: both checks failed and launch_game ran.
C3_Witness ==
    launcher_check = "failed" /\ game_check = "failed" /\ Launched

\* C4: a failure at any step of the self-update is never fatal; the only exits
\* with a non-zero code come from the start-up of main (installation directory,
\* window) or from a failed spawn of the game.
C4_SelfUpdateNeverFatal ==
    (IsSome(exit) /\ Unwrap(exit).code # 0) =>
        Unwrap(exit).by \in {"install_dir", "window", "launch_failed"}

\* The kinds of failure of a patch step that C5 names.
StepFailures == {"download", "decompress", "primitive"}

\* C5: when a step of the patch chain fails in its download, its decompression
\* or the patch primitive, the loop ends there: no later step is downloaded or
\* applied, the game file and the steps applied stay as they are, and the next
\* step of the worker is the reinstall of the latest release's .exe asset.
C5_FailedStepFallsBackToReinstall ==
    [][ /\ (step_fail = "none" /\ step_fail' \in StepFailures) =>
              /\ pc' = "reinstall" /\ reinstall_game'
              /\ exe_file' = exe_file
              /\ applied' = applied
              /\ index' = index
        /\ (step_fail \in StepFailures) =>
              /\ attempted' = attempted
              /\ applied' = applied
              /\ step_fail' = step_fail
        /\ (step_fail \in StepFailures /\ pc = "reinstall") =>
              /\ pc' = "launch_game"
              /\ pre_reinstall' = Some(exe_file)
              /\ reinstall_result' # "none"
              /\ reinstall_result' = "ok" =>
                    exe_file' = Some(Unwrap(FindAsset(At(releases, 0).assets, ".exe"))
                                        .browser_download_url)
      ]_vars

\* C5 witness: the second step failed to decompress after the first was applied,
\* and the reinstall then ran.
C5_Witness ==
    /\ step_fail = "decompress" /\ Len(applied) = 1 /\ Len(attempted) = 2
    /\ reinstall_result = "ok"

\* The .exe asset of release i, None when it carries none.
ExeOf(i) ==
    LET as == At(releases, i).assets
        es == {n \in 1..Len(as) : as[n].name[Len(as[n].name)] = ".exe"}
    IN  IF es = {} THEN None ELSE Some(as[CHOOSE n \in es : \A m \in es : n <= m])

\* The bytes of the full artifact of release i.
FullArtifact(i) == Unwrap(ExeOf(i)).browser_download_url

\* The patch bytes p turn the bytes a into the bytes b.
Transforms(p, a, b) ==
    IsSome(BzDecode(p)) /\ BsdiffPatch(a, Unwrap(BzDecode(p))) = {Some(b)}

\* Catalog integrity up to release k: releases 0..k carry a full artifact and the
\* .patch asset of each release j < k turns the artifact of j+1 into that of j.
Integrity(k) ==
    /\ \A j \in 0..k : IsSome(ExeOf(j))
    /\ \A j \in 0..(k - 1) :
          /\ IsSome(PatchOf(j))
          /\ Transforms(Unwrap(PatchOf(j)).browser_download_url,
                        FullArtifact(j + 1), FullArtifact(j))

\* C6: under catalog integrity, with the installed file the full artifact of
\* release k, each step of the chain finds the file as the previous step left
\* it (the artifact of release k - index), and when every step has succeeded
\* the game file is the full artifact of releases[0].
C6_ChainYieldsLatestArtifact ==
    (/\ Planned /\ IsSome(installed_release_index) /\ ~reinstall_game
     /\ pc # "panicked"
     /\ Integrity(Unwrap(installed_release_index))
     /\ exe_hash = Some(Sha256Digest(FullArtifact(Unwrap(installed_release_index))))) =>
        LET k == Unwrap(installed_release_index)
        IN  /\ pc = "patch_loop" =>
                  exe_file = Some(FullArtifact(k - index)) /\ Len(applied) = index
            /\ pc \in {"launch_game", "done"} =>
                  exe_file = Some(FullArtifact(0)) /\ Len(applied) = k

\* C6 witness: two patches applied in a row brought the file to the latest artifact.
C6_Witness ==
    /\ Planned /\ installed_release_index = Some(2) /\ ~reinstall_game
    /\ Integrity(2)
    /\ exe_hash = Some(Sha256Digest(FullArtifact(2)))
    /\ pc = "done" /\ Len(applied) = 2
    /\ exe_file = Some(FullArtifact(0))

\* C7: once the game's list is fetched, check_for_updated_release reports up to
\* date exactly when the installed digest is present, releases[0] has a .exe
\* asset, that asset's digest is present, and the two digests are equal.
C7_GameUpToDateIffDigestsEqual ==
    (game_check \in {"current", "outdated"}) =>
        ((game_check = "current") <=>
            /\ IsSome(exe_hash)
            /\ IsSome(ExeOf(0))
            /\ IsSome(Unwrap(ExeOf(0)).digest)
            /\ Unwrap(Unwrap(ExeOf(0)).digest) = Unwrap(exe_hash))

\* C7 witness: a game check that reported up to date.
C7_Witness ==
    game_check = "current" /\ IsSome(exe_hash) /\ pc = "launch_game"

\* C8: the process restart_program spawns runs with --no-self-update: it makes no
\* launcher check and no launcher replacement, so one start of the launcher sees
\* at most one replacement of its binary and at most one restart.
C8_SelfUpdateNeverLoops ==
    /\ restarts <= 1
    /\ replaced <= 1
    /\ restarts = 1 =>
          /\ args.no_self_update
          /\ replaced = 1
          /\ launcher_check = "none" /\ launcher_releases = <<>> /\ ul_result = "none"
          /\ pc \notin {"self_check", "update_launcher", "self_replace", "remove_temp",
                        "restart_program"}

\* C8 witness: the restarted launcher went on to launch the game.
C8_Witness ==
    restarts = 1 /\ replaced = 1 /\ Launched

\* C9: when the reinstall fails (no .exe asset on the latest release, or
\* download_file fails), the game file is as it was when the reinstall began,
\* and the worker goes on to launch_game without another reinstall.
C9_FailedReinstallLeavesFile ==
    (reinstall_result \in {"no_asset", "download"}) =>
        /\ pre_reinstall = Some(exe_file)
        /\ pc \in {"launch_game", "done"}

\* C10: closing the window does not stop the worker: whether or not a status
\* published after the event loop has ended is a no-op, the worker goes on to
\* launch_game, so the process never ends by main's return.
C10_CloseDoesNotStopWorker ==
    IsSome(exit) => Unwrap(exit).by # "main_return"

\* The positions of the worker inside update_launcher.
LauncherPcs == {"update_launcher", "self_replace", "remove_temp", "restart_program"}

\* The launcher's list is fetched, non-empty, and its first tag differs from the
\* compiled-in version.
TagDiffers ==
    launcher_releases # <<>> /\ At(launcher_releases, 0).tag_name # PkgVersion

\* C11: the launcher check calls update_launcher exactly when the list was fetched
\* non-empty and the compiled-in version differs from releases[0].tag_name; the
\* worker stands inside update_launcher only after such a check, and when the
\* check found the versions equal (or fetched nothing) there is no download, no
\* replacement and no restart.
C11_UpdateLauncherIffTagDiffers ==
    /\ [][ (pc = "self_check" /\ launcher_check' # "none") =>
              /\ (pc' = "update_launcher") <=> TagDiffers'
              /\ (launcher_check' = "outdated") <=> TagDiffers' ]_vars
    /\ [](pc \in LauncherPcs => (launcher_check = "outdated" /\ TagDiffers))
    /\ [](launcher_check \in {"failed", "current"} =>
              /\ NoLauncherUpdate
              /\ launcher_bin = PkgVersion
              /\ CurrentExeName \notin temp_files)

\* C11 witness: the check found the compiled-in version on a release that carries
\* a launcher executable, and the worker went on to launch the game.
C11_Witness ==
    /\ launcher_check = "current" /\ launcher_releases # <<>>
    /\ At(launcher_releases, 0).tag_name = PkgVersion
    /\ At(launcher_releases, 0).assets # <<>>
    /\ Launched /\ launcher_bin = PkgVersion

\* diff_files returned Ok: the patch file holds its output for file_a and file_b.
DiffWritten ==
    /\ pc = "diff_done" /\ IsSome(exit) /\ Unwrap(exit).code = 0
    /\ IsSome(diff_disk.patch_file)

\* C12: round trip.  When diff_files(file_a, file_b, patch_file) has written its
\* patch and patch_file is run with it on a file that holds the bytes of file_a,
\* then, unless a read or the final write fails, the file holds exactly the bytes
\* of file_b afterwards: the decompression and the patch primitive never fail on
\* the tool's own output.
C12_DiffThenPatchRoundTrip ==
    [][ (/\ DiffWritten /\ IsSome(exe_file) /\ exe_file = diff_disk.file_a
         /\ pc' = "patched") =>
            /\ step_fail' \in {"none", "read", "write"}
            /\ step_fail' = "none" => exe_file' = diff_disk.file_b
            /\ PatchFile(exe_file, Unwrap(diff_disk.patch_file), "ok") =
                  {[err |-> "none", file |-> diff_disk.file_b]} ]_vars

\* C12 witness: the patch made from two different files turned a file holding the
\* first into the second.
C12_Witness ==
    /\ pc = "patched" /\ step_fail = "none"
    /\ IsSome(diff_disk.file_a) /\ IsSome(diff_disk.file_b)
    /\ diff_disk.file_a # diff_disk.file_b
    /\ IsSome(diff_disk.patch_file)
    /\ BsdiffPatch(Unwrap(diff_disk.file_a), Unwrap(BzDecode(Unwrap(diff_disk.patch_file)))) =
          {diff_disk.file_b}
    /\ exe_file = diff_disk.file_b

\* C13: when the game file could not be read (exe_hash is None) and the fetched
\* catalog is non-empty, update_game takes the reinstall path whatever digests
\* the assets carry: reinstall_game is set, no patch download is started, no
\* patch is applied, and the reinstall has run by the time update_game returns.
C13_UnreadableFileReinstalls ==
    (Planned /\ exe_hash = None /\ releases # <<>>) =>
        /\ reinstall_game
        /\ attempted = <<>> /\ applied = <<>>
        /\ pc \in {"launch_game", "done"} => reinstall_result # "none"

\* The bytes the last applied step wrote into the game file: the new bytes of its
\* patch, or what bsdiff::patch made of a patch for another base.
LastStepWrote ==
    LET patch == Unwrap(BzDecode(applied[Len(applied)].browser_download_url))
    IN  {Some(patch.new), Some(Corrupt)}

\* C14: a patch step that fails in its download, its decompression or the patch
\* primitive does not touch the game file: the failing step leaves the file as it
\* found it, and when the chain aborts the file holds the bytes the last applied
\* step wrote, or the bytes installed at the start when no step was applied.
C14_FailedStepLeavesTarget ==
    /\ [][ (pc = "patch_loop" /\ step_fail' \in StepFailures) =>
              (exe_file' = exe_file /\ applied' = applied) ]_vars
    /\ []( (pc = "reinstall" /\ step_fail \in StepFailures) =>
              IF applied = <<>> THEN ExeHashOf(exe_file) = exe_hash
              ELSE exe_file \in LastStepWrote )

\* C14 witness: the first step was applied, the second failed in the patch
\* primitive, and the file holds what the first step wrote.
C14_Witness ==
    /\ pc = "reinstall" /\ step_fail = "primitive"
    /\ Len(applied) = 1 /\ Len(attempted) = 2
    /\ exe_file = Some(applied[1].browser_download_url.new)
    /\ ExeHashOf(exe_file) # exe_hash

\* update_game has returned.
GameUpdateReturned == Planned /\ pc \in {"launch_game", "done"}

\* C15: whenever update_game has returned and no remove_file has failed, no
\* patch file that a step finished downloading is left in the temp directory.
C15_NoPatchFileLeftBehind ==
    (GameUpdateReturned /\ ~rm_failed /\ step_fail # "download") => temp_files = {}

\* C16: releases[0] is read only from a non-empty list.  A check that reports
\* not up to date holds a non-empty list, so the worker stands at the call
\* update_launcher(.., &releases[0]) or inside update_launcher only with a
\* non-empty launcher list, and inside update_game (whose reinstall reads
\* releases[0]) only with a non-empty game list.
C16_ReleasesIndexedOnlyWhenNonEmpty ==
    /\ launcher_check = "outdated" => Len(launcher_releases) >= 1
    /\ game_check = "outdated" => Len(releases) >= 1
    /\ pc \in LauncherPcs => (launcher_check = "outdated" /\ Len(launcher_releases) >= 1)
    /\ pc \in {"update_game", "patch_loop", "reinstall"} =>
          (game_check = "outdated" /\ Len(releases) >= 1)
    /\ (launcher_check = "failed" => launcher_releases = <<>>)
    /\ (game_check = "failed" => releases = <<>>)

\* C16 witness: update_launcher ran on releases[0] and gave up, and the worker
\* now stands at the reinstall that reads the game's releases[0].
C16_Witness ==
    /\ launcher_check = "outdated" /\ ul_result # "none"
    /\ pc = "reinstall" /\ Len(releases) >= 1 /\ Len(launcher_releases) >= 1

\* The part of the temp directory the game update writes to.
PatchTemp(temp) == temp \ {CurrentExeName}

NewLauncher ==
    Unwrap(FindAsset(At(launcher_releases, 0).assets, ".exe")).browser_download_url

\* C18: update_launcher spawns the new process only after the download, the
\* replacement and the deletion of the temp copy have succeeded, in that order:
\* self_replace is reached with the download in the temp directory and the old
\* binary in place, remove_file with the binary replaced, restart_program with
\* the binary replaced and the temp copy gone; every restart follows a
\* replacement; and the step that spawns the new process ends the current one
\* before any game check, game update or launch, the new process starting at
\* main with --no-self-update.
C18_RestartOnlyAfterReplacement ==
    /\ [](pc = "self_replace" =>
             /\ CurrentExeName \in temp_files
             /\ replaced = 0 /\ launcher_bin = PkgVersion /\ ul_result = "none")
    /\ [](pc = "remove_temp" =>
             /\ CurrentExeName \in temp_files
             /\ replaced = 1 /\ launcher_bin = NewLauncher /\ ul_result = "none")
    /\ [](pc = "restart_program" =>
             /\ CurrentExeName \notin temp_files
             /\ replaced = 1 /\ launcher_bin = NewLauncher /\ ul_result = "none")
    /\ [](restarts <= replaced)
    /\ [][ restarts' # restarts =>
              /\ pc = "restart_program" /\ restarts' = restarts + 1
              /\ replaced = 1 /\ launcher_bin = NewLauncher
              /\ CurrentExeName \notin temp_files
              /\ exit = None /\ game_check = "none" /\ exe_hash = None /\ NoGameUpdate
              /\ UNCHANGED <<disk, replaced>>
              /\ FreshProcess' /\ args' = RestartArgs ]_vars

\* C18 witness: the replaced launcher has just been spawned: the binary is the
\* downloaded one, the temp copy is gone, and the new process stands at main.
C18_Witness ==
    /\ restarts = 1 /\ replaced = 1 /\ pc = "main" /\ exit = None
    /\ args = RestartArgs
    /\ launcher_bin # PkgVersion /\ CurrentExeName \notin temp_files
    /\ game_check = "none"

====
